---- MODULE Spec2Model ----
(***************************************************************************)
(* fontTools.misc.visitor: the Visitor engine.  Registration tables are    *)
(* class attributes (_visitors) of the engine types, built by the          *)
(* register / register_attr / register_attrs decorators; visit() walks an  *)
(* object graph, calling the registered functions before the default       *)
(* recursion.  The recursion of visit() is modelled with an explicit call  *)
(* stack; `log` records what one visit() call did, in order.               *)
(* fontTools.otlLib.error: OpenTypeLibError, an exception with a location, *)
(* held in `error`.                                                         *)
(***************************************************************************)
EXTENDS Naturals, Sequences, FiniteSets

VARIABLES visitors, defaultStop, nregs, err, engine, stack, log, status, error

vars == <<visitors, defaultStop, nregs, err, engine, stack, log, status, error>>

\* ------------------------------------------------------------------ bounds
\* Number of decorator applications (registration calls) in a run.
MaxRegs == 2

\* Length of the messages and locations of OpenTypeLibError.
MaxStrLen == 2

\* Number of decorator applications in the runs checked for termination.
MaxFairRegs == 1

\* ------------------------------------------------------------ engine types
\* class A(Visitor), class B(A).  "object" ends every mro.
EngineTypes == {"A", "B"}

EngineBase ==
  [c \in {"Visitor", "A", "B"} |->
     CASE c = "Visitor" -> "object"
       [] c = "A" -> "Visitor"
       [] c = "B" -> "A"]

\* cls.mro() under single inheritance: the class, then its base's mro.
RECURSIVE Mro(_)
Mro(c) == IF c = "object" THEN <<"object">> ELSE <<c>> \o Mro(EngineBase[c])

\* ------------------------------------------------------------- node types
\* The runtime types of the visited values.  S is a subclass of T; Color is
\* an enum.Enum subclass whose members carry a public attribute.
NodeTypes == {"T", "S", "list", "dict", "int", "str", "Color"}

\* type.__bases__ of the node types, as the chain typ.mro() without "object".
NodeMro ==
  [t \in NodeTypes |-> IF t = "S" THEN <<"S", "T">> ELSE <<t>>]

\* What the shape tests of visit() see on an instance of each type.
HasDict(t) == t \in {"T", "S", "Color"}
IsEnum(t) == t = "Color"
IsList(t) == t = "list"
IsDict(t) == t = "dict"

\* ------------------------------------------------------------ field names
\* The selector of a whole-node handler is None; "*" is the wildcard.
None == "<None>"
Wildcard == "*"

\* Code points of the attribute names, for sorted() and key[0] == "_".
Chars ==
  [n \in {"x", "y", "_p"} |->
     CASE n = "x" -> <<120>>
       [] n = "y" -> <<121>>
       [] n = "_p" -> <<95, 112>>]

FieldNames == DOMAIN Chars

\* str.__lt__: lexicographic order of the code points.
RECURSIVE SeqLess(_, _)
SeqLess(a, b) ==
  IF b = <<>> THEN FALSE
  ELSE IF a = <<>> THEN TRUE
  ELSE IF Head(a) # Head(b) THEN Head(a) < Head(b)
  ELSE SeqLess(Tail(a), Tail(b))

StrLess(a, b) == SeqLess(Chars[a], Chars[b])

\* sorted(keys): insertion sort of a sequence of distinct names.
RECURSIVE Insert(_, _)
Insert(k, s) ==
  IF s = <<>> THEN <<k>>
  ELSE IF StrLess(k, Head(s)) THEN <<k>> \o s
  ELSE <<Head(s)>> \o Insert(k, Tail(s))

\* Mutation: the keys are taken in insertion order.
Sorted_Unsorted(s) == s

RECURSIVE Sorted(_)
Sorted(s) == IF s = <<>> THEN <<>> ELSE Insert(Head(s), Sorted(Tail(s)))

\* ------------------------------------------------------------ object graph
\* The values that can be visited.  vars is vars(obj) in insertion order
\* (name, value); elems is the elements of a list, or the (key, value) items
\* of a dict in iteration order.
Obj(t, v, e) == [typ |-> t, vars |-> v, elems |-> e]

Heap ==
  [o \in {"i1", "i2", "ka", "kb", "c1", "d1", "d2", "l1", "s1", "t1"} |->
     CASE o = "i1" -> Obj("int", <<>>, <<>>)
       [] o = "i2" -> Obj("int", <<>>, <<>>)
       [] o = "ka" -> Obj("str", <<>>, <<>>)
       [] o = "kb" -> Obj("str", <<>>, <<>>)
       [] o = "c1" -> Obj("Color", <<<<"x", "i2">>>>, <<>>)
       [] o = "d1" -> Obj("dict", <<>>, <<<<"ka", "i1">>>>)
       [] o = "d2" -> Obj("dict", <<>>, <<<<"kb", "i2">>>>)
       [] o = "l1" -> Obj("list", <<>>, <<"d1", "d2">>)
       [] o = "s1" -> Obj("S", <<<<"x", "c1">>>>, <<>>)
       [] o = "t1" -> Obj("T", <<<<"y", "s1">>, <<"_p", "i2">>, <<"x", "c1">>>>, <<>>)]

Objs == DOMAIN Heap

\* The values visit() is called on from outside.
Roots == {"t1", "l1"}

TypeOf(o) == Heap[o].typ

\* vars(obj).keys()
RECURSIVE Keys(_)
Keys(v) == IF v = <<>> THEN <<>> ELSE <<Head(v)[1]>> \o Keys(Tail(v))

\* getattr(obj, key)
RECURSIVE Lookup(_, _)
Lookup(v, key) == IF Head(v)[1] = key THEN Head(v)[2] ELSE Lookup(Tail(v), key)

GetAttr(o, key) == Lookup(Heap[o].vars, key)

\* ------------------------------------------------------ registration tables
\* A dict is a function on its keys.
EmptyDict == [k \in {} |-> 0]

DictSet(d, k, v) == [j \in DOMAIN d \cup {k} |-> IF j = k THEN v ELSE d[j]]

\* The class attribute _visitors of an engine type: own says whether it is
\* in the class's own __dict__, tab maps node type -> (selector -> handler).
NoTable == [own |-> FALSE, tab |-> EmptyDict]


\* Mutation: no assertion, a second registration replaces the first.
RECURSIVE InsertAttrs_Overwrite(_, _, _)
InsertAttrs_Overwrite(d, attrs, method) ==
  IF attrs = <<>> THEN [d |-> d, dup |-> <<>>]
  ELSE InsertAttrs_Overwrite(DictSet(d, Head(attrs), method), Tail(attrs), method)

\* for attr in attrs: assert attr not in _visitors; _visitors[attr] = method
\* The result is the dict as the loop left it and the attr whose assertion
\* failed (<<>> when the loop ran to its end).
RECURSIVE InsertAttrs(_, _, _)
InsertAttrs(d, attrs, method) ==
  IF attrs = <<>> THEN [d |-> d, dup |-> <<>>]
  ELSE IF Head(attrs) \in DOMAIN d THEN [d |-> d, dup |-> <<Head(attrs)>>]
  ELSE InsertAttrs(DictSet(d, Head(attrs), method), Tail(attrs), method)

\* Mutation: a failed assertion undoes what the loop over attrs stored for
\* the clazz at hand.
RECURSIVE InsertClazzes_Rollback(_, _, _, _)
InsertClazzes_Rollback(tab, clazzes, attrs, method) ==
  IF clazzes = <<>> THEN [tab |-> tab, msg |-> <<>>]
  ELSE LET clazz == Head(clazzes)
           old == IF clazz \in DOMAIN tab THEN tab[clazz] ELSE EmptyDict
           r == InsertAttrs(old, attrs, method)
           tab2 == DictSet(tab, clazz, r.d)
       IN IF r.dup = <<>> THEN InsertClazzes_Rollback(tab2, Tail(clazzes), attrs, method)
          ELSE [tab |-> tab, msg |-> <<"Oops", clazz, r.dup[1]>>]

\* for clazz in clazzes: _visitors = celf._visitors.setdefault(clazz, {}) ...
\* msg is the message of the AssertionError raised, <<>> when none was.
RECURSIVE InsertClazzes(_, _, _, _)
InsertClazzes(tab, clazzes, attrs, method) ==
  IF clazzes = <<>> THEN [tab |-> tab, msg |-> <<>>]
  ELSE LET clazz == Head(clazzes)
           old == IF clazz \in DOMAIN tab THEN tab[clazz] ELSE EmptyDict
           r == InsertAttrs(old, attrs, method)
           tab2 == DictSet(tab, clazz, r.d)
       IN IF r.dup = <<>> THEN InsertClazzes(tab2, Tail(clazzes), attrs, method)
          ELSE [tab |-> tab2, msg |-> <<"Oops", clazz, r.dup[1]>>]

\* wrapper(method): for clazzes, attrs in clazzes_attrs: ...
\* A pair is <<clazzes, attrs>>, both tuples.
RECURSIVE Wrapper(_, _, _)
Wrapper(tab, clazzes_attrs, method) ==
  IF clazzes_attrs = <<>> THEN [tab |-> tab, msg |-> <<>>]
  ELSE LET r == InsertClazzes(tab, Head(clazzes_attrs)[1],
                              Head(clazzes_attrs)[2], method)
       IN IF r.msg = <<>> THEN Wrapper(r.tab, Tail(clazzes_attrs), method)
          ELSE r

\* Mutation: hasattr(celf, "_visitors") in place of the __dict__ test, so a
\* subclass writes into the dict it inherits.
TableOwner_Inherited(celf) ==
  LET owners == SelectSeq(Mro(celf), LAMBDA c : c # "object" /\ visitors[c].own)
  IN IF owners = <<>> THEN celf ELSE Head(owners)

\* The class whose _visitors dict _register hands to wrapper: celf itself,
\* which gets an empty dict of its own when "_visitors" is not in its
\* __dict__ (a dict it only inherits is left alone).
TableOwner(celf) == celf

\* celf._register(clazzes_attrs)(method) for a function named `name`: the
\* class attributes after the call and the message of the AssertionError it
\* raised (<<>> when it returned).
RegisterResult(celf, clazzes_attrs, name, method) ==
  IF celf = "Visitor"
  THEN [visitors |-> visitors, msg |-> <<"Subclass Visitor instead.">>]
  ELSE LET owner == TableOwner(celf)
           tab0 == IF visitors[owner].own THEN visitors[owner].tab ELSE EmptyDict
           r == IF name # "visit" THEN [tab |-> tab0, msg |-> <<"AssertionError">>]
                ELSE Wrapper(tab0, clazzes_attrs, method)
       IN [visitors |-> [visitors EXCEPT ![owner] = [own |-> TRUE, tab |-> r.tab]],
           msg |-> r.msg]

\* [(clazz, attrs) for clazz in clazzes]
RECURSIVE PairEach(_, _)
PairEach(clazzes, attrs) ==
  IF clazzes = <<>> THEN <<>>
  ELSE <<<< <<Head(clazzes)>>, attrs >>>> \o PairEach(Tail(clazzes), attrs)

\* The arguments the decorators are applied with.
RegisterClazzes == {<<"T">>, <<"list", "dict", "Color">>}
AttrArgs ==
  { << <<"T">>, <<"x">> >>, << <<"T", "S">>, <<"*">> >>,
    << <<"T", "S">>, <<"_p", "y">> >> }
AttrsPairs ==
  { << << <<"T">>, <<"y">> >>, << <<"T", "S">>, <<"x", "y">> >> >>,
    << << <<"S">>, <<>> >> >> }
MethodNames == {"visit", "visit_T"}
Classes == EngineTypes \cup {"Visitor"}

\* A decorator application by the program: no visit() runs meanwhile.  The
\* decorated functions are numbered 1, 2, ... in order of definition.
Decorate(celf, clazzes_attrs, name) ==
  /\ stack = <<>>
  /\ nregs < MaxRegs
  /\ LET r == RegisterResult(celf, clazzes_attrs, name, nregs + 1)
     IN /\ visitors' = r.visitors
        /\ err' = r.msg
  /\ nregs' = nregs + 1
  /\ engine' = "none"
  /\ log' = <<>>
  /\ status' = "idle"
  /\ UNCHANGED <<defaultStop, stack, error>>

\* @celf.register(clazzes)
Register(celf, clazzes, name) ==
  Decorate(celf, << <<clazzes, <<None>> >> >>, name)

\* @celf.register_attr(clazzes, attrs)
RegisterAttr(celf, clazzes, attrs, name) ==
  Decorate(celf, PairEach(clazzes, attrs), name)

\* @celf.register_attrs(clazzes_attrs)
RegisterAttrs(celf, clazzes_attrs, name) ==
  Decorate(celf, clazzes_attrs, name)

\* ----------------------------------------------------------------- resolver
\* getattr(c, "_visitors", None): the attribute of the first class of c's
\* mro that has it in its own __dict__; own = FALSE stands for None.
RECURSIVE FirstOwn(_)
FirstOwn(chain) ==
  IF chain = <<>> THEN NoTable
  ELSE IF Head(chain) # "object" /\ visitors[Head(chain)].own
       THEN visitors[Head(chain)]
       ELSE FirstOwn(Tail(chain))

ClassVisitors(c) == FirstOwn(Mro(c))

\* Mutation: only the engine's own class is consulted, no walk up the mro.
VisitorsWalk_OwnOnly(chain, typ) ==
  LET v == ClassVisitors(Head(chain))
  IN IF v.own /\ typ \in DOMAIN v.tab THEN v.tab[typ] ELSE EmptyDict

\* Mutation: the least-derived class with an entry for the type wins.
RECURSIVE VisitorsWalk_BaseWins(_, _)
VisitorsWalk_BaseWins(chain, typ) ==
  IF chain = <<>> THEN EmptyDict
  ELSE LET v == ClassVisitors(Head(chain))
       IN IF ~v.own THEN EmptyDict
          ELSE LET up == VisitorsWalk_BaseWins(Tail(chain), typ)
               IN IF DOMAIN up # {} THEN up
                  ELSE IF typ \in DOMAIN v.tab THEN v.tab[typ] ELSE EmptyDict

\* Mutation: the bases of the node's type are tried as well as the type.
RECURSIVE VisitorsWalk_NodeMro(_, _)
VisitorsWalk_NodeMro(chain, typ) ==
  IF chain = <<>> THEN EmptyDict
  ELSE LET v == ClassVisitors(Head(chain))
           hit == SelectSeq(NodeMro[typ], LAMBDA t : t \in DOMAIN v.tab)
       IN IF ~v.own THEN EmptyDict
          ELSE IF hit # <<>> THEN v.tab[Head(hit)]
          ELSE VisitorsWalk_NodeMro(Tail(chain), typ)

\* The loop of _visitorsFor over cls.mro(); _default is the empty dict.
RECURSIVE VisitorsWalk(_, _)
VisitorsWalk(chain, typ) ==
  IF chain = <<>> THEN EmptyDict
  ELSE LET v == ClassVisitors(Head(chain))
       IN IF ~v.own THEN EmptyDict
          ELSE IF typ \in DOMAIN v.tab THEN v.tab[typ]
          ELSE VisitorsWalk(Tail(chain), typ)

\* cls._visitorsFor(thing)
VisitorsFor(cls, thing) == VisitorsWalk(Mro(cls), TypeOf(thing))

\* dict.get(key, default), with 0 for "no function"
DictGet(d, key, default) == IF key \in DOMAIN d THEN d[key] ELSE default

\* self.defaultStop: the class attribute found along the mro of type(self).
RECURSIVE FirstSet(_)
FirstSet(chain) ==
  IF defaultStop[Head(chain)] # "unset" THEN defaultStop[Head(chain)] = "True"
  ELSE FirstSet(Tail(chain))

DefaultStopOf(cls) == FirstSet(Mro(cls))

\* What a registered function does when called: it returns False, True or
\* None, or it raises.
Rets == {"False", "True", "None", "raise"}

\* Mutation: an explicit False no longer stops.
Stops_NoFalse(ret, cls) == ret = "None" /\ DefaultStopOf(cls)

\* Mutation: anything but an explicit True stops.
Stops_Strict(ret, cls) == ret # "True"

\* ret == False or (ret is None and self.defaultStop)
Stops(ret, cls) == ret = "False" \/ (ret = "None" /\ DefaultStopOf(cls))

\* ---------------------------------------------------------------- traversal
\* A frame of the call stack: a call of visit() that has not started its
\* body (k = "visit"), or a running visitObject / visitList / visitDict with
\* its loop state.  visit() and the hook it calls share one frame.
Frame(k, o, keys, vis, i) == [k |-> k, obj |-> o, keys |-> keys, vis |-> vis, i |-> i]

VisitFrame(o) == Frame("visit", o, <<>>, EmptyDict, 0)

\* An entry of the log: what happened, on which object and attribute, at
\* which stack depth, and for a call of a registered function which function
\* (h) and what it did (ret).
Event(ev, o, attr, d, h, ret) ==
  [ev |-> ev, obj |-> o, attr |-> attr, depth |-> d, h |-> h, ret |-> ret]

Top == stack[Len(stack)]
Below == SubSeq(stack, 1, Len(stack) - 1)

\* The state of the outermost visit() call, from its stack.
StatusOf(st) == IF st = <<>> THEN "returned" ELSE "running"

\* Mutation: no key is private.
IsPrivate_Never(key) == FALSE

\* key[0] == "_"
IsPrivate(key) == Chars[key][1] = 95

\* Mutation: the wildcard entry is preferred to the field's own.
FieldVisitor_WildcardFirst(_visitors, key) ==
  DictGet(_visitors, Wildcard, DictGet(_visitors, key, 0))

\* _visitors.get(key, defaultVisitor), defaultVisitor = _visitors.get("*", None)
FieldVisitor(_visitors, key) ==
  DictGet(_visitors, key, DictGet(_visitors, Wildcard, 0))

\* `continue` for a private key: on to the next key.
SkipPrivate(below, next) == below \o <<next>>

\* Mutation: a stopping field function ends the loop of visitObject.
ContinueStopped_Return(below, next) == below

\* `continue` after a field function that stops: on to the next key.
ContinueStopped(below, next) == below \o <<next>>

\* Mutation: the lookup is a setdefault on the engine type's table: it
\* leaves an empty handler set for a type it did not find.
AfterResolve_SetDefault(v, cls, typ) ==
  IF v[cls].own /\ typ \in DOMAIN v[cls].tab THEN v
  ELSE [v EXCEPT ![cls] = [own |-> TRUE, tab |-> DictSet(v[cls].tab, typ, EmptyDict)]]

\* The tables after _visitorsFor ran for an engine of type cls and a value
\* of type typ: getattr(base, "_visitors", None) and _visitors.get(typ, None)
\* only read, and nothing else in visit() touches a table.
AfterResolve(v, cls, typ) == v

\* Mutation: the default handling comes first, the registered function
\* after it.
HandlerFirst_After(called, default) == default \o called

\* The order of the two in the source: the call of the registered function
\* (lines 88 and 130), then the default handling of the same field or node
\* (visitAttr at line 91, the hooks at lines 133-140).
HandlerFirst(called, default) == called \o default

\* Mutation: the exception is swallowed where the function was called and
\* the caller goes on.
Raise_Caught(below) == below

\* A registered function raises: there is no try / except in the class, so
\* every frame below is unwound and the exception leaves the outermost
\* visit().
Raise(below) == <<>>

\* Mutation: whatever has a __dict__ is traversed as an object, an
\* enumeration member too.
Shape_EnumAsObject(typ) ==
  IF HasDict(typ) THEN "visitObject"
  ELSE IF IsList(typ) THEN "visitList"
  ELSE IF IsDict(typ) THEN "visitDict"
  ELSE "visitLeaf"

\* Mutation: the elif for lists is missing, a list is taken for a leaf.
Shape_ListAsLeaf(typ) ==
  IF HasDict(typ) /\ ~IsEnum(typ) THEN "visitObject"
  ELSE IF IsDict(typ) THEN "visitDict"
  ELSE "visitLeaf"

\* The hook visit() calls for a value of type typ: the if / elif chain on
\* hasattr(obj, "__dict__") and not isinstance(obj, enum.Enum), then
\* isinstance(obj, list), then isinstance(obj, dict), else visitLeaf.
Shape(typ) ==
  IF HasDict(typ) /\ ~IsEnum(typ) THEN "visitObject"
  ELSE IF IsList(typ) THEN "visitList"
  ELSE IF IsDict(typ) THEN "visitDict"
  ELSE "visitLeaf"

\* visitor.visit(root) is called on an engine instance of type e.
StartVisit(e, root) ==
  /\ stack = <<>>
  /\ engine' = e
  /\ stack' = <<VisitFrame(root)>>
  /\ log' = <<>>
  /\ status' = "running"
  /\ UNCHANGED <<visitors, defaultStop, nregs, err, error>>

\* The body of visit(obj) up to the call of the shape hook.  visitLeaf is
\* `pass`, so a leaf returns at once.
Visit ==
  /\ stack # <<>>
  /\ Top.k = "visit"
  /\ LET obj == Top.obj
         typ == TypeOf(obj)
         d == Len(stack)
         visitorFunc == DictGet(VisitorsFor(engine, obj), None, 0)
     IN \E ret \in IF visitorFunc # 0 THEN Rets ELSE {"None"} :
          LET called == IF visitorFunc # 0
                        THEN <<Event("call", obj, None, d, visitorFunc, ret)>>
                        ELSE <<>>
              started == log \o <<Event("visit", obj, None, d, 0, "None")>>
              entered == started \o called
          IN IF visitorFunc # 0 /\ ret = "raise"
             THEN /\ stack' = Raise(Below)
                  /\ log' = entered
                  /\ status' = "raised"
             ELSE IF visitorFunc # 0 /\ Stops(ret, engine)
             THEN /\ stack' = Below
                  /\ log' = entered
                  /\ status' = StatusOf(stack')
             ELSE LET hook == Shape(typ)
                  IN /\ log' = started \o HandlerFirst(called, <<Event(hook, obj, None, d, 0, "None")>>)
                     /\ stack' =
                          IF hook = "visitObject"
                          THEN Below \o <<Frame("object", obj, Sorted(Keys(Heap[obj].vars)),
                                                 VisitorsFor(engine, obj), 0)>>
                          ELSE IF hook = "visitList"
                          THEN Below \o <<Frame("list", obj, <<>>, EmptyDict, 1)>>
                          ELSE IF hook = "visitDict"
                          THEN Below \o <<Frame("dict", obj, <<>>, EmptyDict, 1)>>
                          ELSE Below
                     /\ status' = StatusOf(stack')
  /\ visitors' = AfterResolve(visitors, engine, TypeOf(Top.obj))
  /\ UNCHANGED <<defaultStop, nregs, err, engine, error>>

\* One iteration of the loop of visitObject, or its return after the last
\* key.  visitAttr calls visit(value).
VisitObject ==
  /\ stack # <<>>
  /\ Top.k = "object"
  /\ IF Top.keys = <<>>
     THEN /\ stack' = Below
          /\ log' = log
          /\ status' = StatusOf(stack')
     ELSE LET obj == Top.obj
              d == Len(stack)
              key == Head(Top.keys)
              next == [Top EXCEPT !.keys = Tail(Top.keys)]
              visitorFunc == FieldVisitor(Top.vis, key)
          IN IF IsPrivate(key)
             THEN /\ stack' = SkipPrivate(Below, next)
                  /\ log' = log
                  /\ status' = StatusOf(stack')
             ELSE LET value == GetAttr(obj, key)
                  IN \E ret \in IF visitorFunc # 0 THEN Rets ELSE {"None"} :
                       LET call == IF visitorFunc # 0
                                   THEN <<Event("call", obj, key, d, visitorFunc, ret)>>
                                   ELSE <<>>
                           called == log \o call
                       IN IF visitorFunc # 0 /\ ret = "raise"
                          THEN /\ stack' = Raise(Below)
                               /\ log' = called
                               /\ status' = "raised"
                          ELSE IF visitorFunc # 0 /\ Stops(ret, engine)
                          THEN /\ stack' = ContinueStopped(Below, next)
                               /\ log' = called
                               /\ status' = StatusOf(stack')
                          ELSE /\ stack' = Below \o <<next, VisitFrame(value)>>
                               /\ log' = log \o HandlerFirst(call, <<Event("visitAttr", obj, key, d, 0, "None")>>)
                               /\ status' = "running"
  /\ UNCHANGED <<visitors, defaultStop, nregs, err, engine, error>>

\* One iteration of the loop of visitList, or its return.
VisitList ==
  /\ stack # <<>>
  /\ Top.k = "list"
  /\ LET elems == Heap[Top.obj].elems
     IN IF Top.i > Len(elems)
        THEN stack' = Below
        ELSE stack' = Below \o <<[Top EXCEPT !.i = Top.i + 1], VisitFrame(elems[Top.i])>>
  /\ status' = StatusOf(stack')
  /\ UNCHANGED <<visitors, defaultStop, nregs, err, engine, log, error>>

\* Mutation: the loop of visitDict runs over the keys.
Values_Keys(items) == [n \in DOMAIN items |-> items[n][1]]

\* obj.values(): the values of the items, in iteration order.
Values(items) == [n \in DOMAIN items |-> items[n][2]]

\* One iteration of the loop of visitDict over obj.values(), or its return.
VisitDict ==
  /\ stack # <<>>
  /\ Top.k = "dict"
  /\ LET values == Values(Heap[Top.obj].elems)
     IN IF Top.i > Len(values)
        THEN stack' = Below
        ELSE stack' = Below \o <<[Top EXCEPT !.i = Top.i + 1], VisitFrame(values[Top.i])>>
  /\ status' = StatusOf(stack')
  /\ UNCHANGED <<visitors, defaultStop, nregs, err, engine, log, error>>

\* --------------------------------------------------------- OpenTypeLibError
\* Strings are sequences of characters.
Alphabet == {"3", ":", " "}

Strings == UNION {[1..n -> Alphabet] : n \in 0..MaxStrLen}

BadGlyph == <<"b", "a", "d", " ", "g", "l", "y", "p", "h">>

\* The messages an error is built with.
Messages == Strings \cup {BadGlyph}

\* A location: None, or a string.
NoLocation == [none |-> TRUE, str |-> <<>>]

Location(s) == [none |-> FALSE, str |-> s]

Locations == {NoLocation} \cup {Location(s) : s \in Strings \cup {<<"3", ":", "4">>}}

\* No error object yet.
NoError == [state |-> "none", message |-> <<>>, location |-> NoLocation, text |-> <<>>]

\* str(location), as the f-string takes it.
StrOf(location) == IF location.none THEN <<"N", "o", "n", "e">> ELSE location.str

\* Mutation: the test is `self.location is not None`.
Truthy_NotNone(location) == ~location.none

\* bool(location), the test of `if self.location`: None and "" are false.
Truthy(location) == ~location.none /\ Len(location.str) > 0

\* f"{self.location}: {message}" if self.location else message
Format(message, location) ==
  IF Truthy(location) THEN StrOf(location) \o <<":", " ">> \o message ELSE message

\* OpenTypeLibError(message, location): __init__ keeps both.
OpenTypeLibError(message, location) ==
  /\ error' = [state |-> "built", message |-> message, location |-> location,
                text |-> <<>>]
  /\ UNCHANGED <<visitors, defaultStop, nregs, err, engine, stack, log, status>>

\* str(error): __str__; Exception.__str__(self) is the message.
Str ==
  /\ error.state = "built"
  /\ error' = [error EXCEPT !.state = "rendered",
                            !.text = Format(error.message, error.location)]
  /\ UNCHANGED <<visitors, defaultStop, nregs, err, engine, stack, log, status>>

\* ------------------------------------------------------------ specification
\* The class bodies: which engine types assign defaultStop.
DefaultStopChoices ==
  { [c \in Classes |-> IF c = "Visitor" THEN "False" ELSE IF c \in set THEN "True" ELSE "unset"] :
      set \in {{"B"}} }

Init ==
  /\ visitors = [c \in Classes |-> NoTable]
  /\ defaultStop \in DefaultStopChoices
  /\ nregs = 0
  /\ err = <<>>
  /\ engine = "none"
  /\ stack = <<>>
  /\ log = <<>>
  /\ status = "idle"
  /\ error = NoError

Next ==
  \/ \E celf \in Classes, clazzes \in RegisterClazzes, name \in MethodNames :
       Register(celf, clazzes, name)
  \/ \E celf \in Classes, args \in AttrArgs, name \in MethodNames :
       RegisterAttr(celf, args[1], args[2], name)
  \/ \E celf \in Classes, clazzes_attrs \in AttrsPairs, name \in MethodNames :
       RegisterAttrs(celf, clazzes_attrs, name)
  \/ \E e \in EngineTypes, root \in Roots : StartVisit(e, root)
  \/ Visit
  \/ VisitObject
  \/ VisitList
  \/ VisitDict

Spec == Init /\ [][Next]_vars

\* The same steps, with fewer decorator applications.
FairNext ==
  \/ /\ nregs < MaxFairRegs
     /\ \/ \E celf \in Classes, clazzes \in RegisterClazzes, name \in MethodNames :
             Register(celf, clazzes, name)
        \/ \E celf \in Classes, args \in AttrArgs, name \in MethodNames :
             RegisterAttr(celf, args[1], args[2], name)
        \/ \E celf \in Classes, clazzes_attrs \in AttrsPairs, name \in MethodNames :
             RegisterAttrs(celf, clazzes_attrs, name)
  \/ \E e \in EngineTypes, root \in Roots : StartVisit(e, root)
  \/ Visit
  \/ VisitObject
  \/ VisitList
  \/ VisitDict

\* A call of visit() runs on: the interpreter executes it statement after
\* statement until it returns or raises.
FairSpec ==
  Init /\ [][FairNext]_vars /\ WF_vars(Visit \/ VisitObject \/ VisitList \/ VisitDict)

\* Errors are built and rendered.
ErrorNext ==
  \/ \E message \in Messages, location \in Locations : OpenTypeLibError(message, location)
  \/ Str

ErrorSpec == Init /\ [][ErrorNext]_vars

\* ------------------------------------------------- reading tables and log
\* Engine type c itself registered a function for (typ, sel).
Has(c, typ, sel) ==
  /\ visitors[c].own
  /\ typ \in DOMAIN visitors[c].tab
  /\ sel \in DOMAIN visitors[c].tab[typ]

\* Engine type c's own table has an entry, possibly empty, for typ.
HasType(c, typ) == visitors[c].own /\ typ \in DOMAIN visitors[c].tab

Own(c, typ, sel) == visitors[c].tab[typ][sel]

\* The engine types c extends, nearest first.
Ancestors(c) == SelectSeq(Tail(Mro(c)), LAMBDA a : a \in EngineTypes)

Range(s) == {s[i] : i \in DOMAIN s}

\* The engine types from c up to, not including, its ancestor a.
UpTo(c, a) ==
  {Mro(c)[i] : i \in {j \in DOMAIN Mro(c) : \A k \in 1..j : Mro(c)[k] # a}}

Selectors == {None, Wildcard} \cup FieldNames

HookEvents == {"visitObject", "visitList", "visitDict", "visitLeaf"}

\* log[i] opens the handling of one field of a record: the call of the
\* field's function, or visitAttr when no function was called for it.
FieldStart(i) ==
  \/ log[i].ev = "call" /\ log[i].attr # None
  \/ /\ log[i].ev = "visitAttr"
     /\ ~(i > 1 /\ log[i - 1].ev = "call" /\ log[i - 1].obj = log[i].obj
                /\ log[i - 1].attr = log[i].attr /\ log[i - 1].depth = log[i].depth)

\* The places of the log where the engine decides which function to call:
\* the entry of visit(obj), selector None, and the start of each field.
Dispatch(i) == log[i].ev = "visit" \/ FieldStart(i)

\* The function called at a dispatch place, 0 when none was.
Invoked(i) ==
  IF log[i].ev = "call" THEN log[i].h
  ELSE IF log[i].ev = "visit" /\ i < Len(log) /\ log[i + 1].ev = "call"
          /\ log[i + 1].attr = None /\ log[i + 1].depth = log[i].depth
       THEN log[i + 1].h
  ELSE 0

\* Selector sel of engine type c's table applies at dispatch place i when
\* c's handler set for the type is the one used: the exact selector, or the
\* wildcard for a field without an entry of its own in that set.
Applies(c, i, sel) ==
  /\ HasType(c, TypeOf(log[i].obj))
  /\ \/ sel = log[i].attr
     \/ /\ sel = Wildcard
        /\ log[i].attr # None
        /\ ~Has(c, TypeOf(log[i].obj), log[i].attr)

\* --------------------------------------------------------------- claim C1
\* The selectors that can apply at dispatch place i: the exact one, and the
\* wildcard for a field.
SelectorsAt(i) ==
  {log[i].attr} \cup (IF log[i].attr = None THEN {} ELSE {Wildcard})

\* C1 as stated: B extends A, A registered (T, s), B did not register
\* (T, s): a visit through a B engine calls A's function wherever (T, s)
\* applies (for the wildcard: at a field nobody registered by name),
\* whatever else B registered.
C1_Original ==
  engine \in EngineTypes
  => \A a \in Range(Ancestors(engine)) :
       LET below == UpTo(engine, a)
       IN \A i \in DOMAIN log :
            Dispatch(i)
            => LET typ == TypeOf(log[i].obj)
               IN \A sel \in SelectorsAt(i) :
                    (/\ Has(a, typ, sel)
                     /\ \A b \in below : ~Has(b, typ, sel)
                     /\ sel # log[i].attr
                        => \A b \in below \cup {a} : ~Has(b, typ, log[i].attr))
                    => Invoked(i) = Own(a, typ, sel)

\* C1 amended: A's function for (T, s) is called through a B engine when no
\* engine type from B up to A has any entry for node type T in its own
\* table (not even an empty handler set).
C1_InheritedHandler ==
  engine \in EngineTypes
  => \A a \in Range(Ancestors(engine)) :
       LET below == UpTo(engine, a)
       IN \A i \in DOMAIN log :
            Dispatch(i)
            => LET typ == TypeOf(log[i].obj)
               IN (\A b \in below : ~HasType(b, typ))
                  => \A sel \in SelectorsAt(i) :
                       (Has(a, typ, sel) /\ Applies(a, i, sel))
                       => Invoked(i) = Own(a, typ, sel)

C1_Witness ==
  /\ engine = "B"
  /\ \E i \in DOMAIN log :
       /\ log[i].ev = "call"
       /\ Has("A", TypeOf(log[i].obj), log[i].attr)
       /\ ~HasType("B", TypeOf(log[i].obj))
       /\ visitors["B"].own
       /\ log[i].h = Own("A", TypeOf(log[i].obj), log[i].attr)

\* --------------------------------------------------------------- claim C2
\* The argument lists _register receives from the three decorators.
RegistrationCalls ==
  { << <<clazzes, <<None>> >> >> : clazzes \in RegisterClazzes }
    \cup { PairEach(args[1], args[2]) : args \in AttrArgs }
    \cup AttrsPairs

\* The (node type, selector) pairs an argument list names.
NamedPairs(clazzes_attrs) ==
  UNION { Range(clazzes_attrs[i][1]) \X Range(clazzes_attrs[i][2]) :
            i \in DOMAIN clazzes_attrs }

\* C2: a registration on an engine type that names a pair already in that
\* type's own table raises the "Oops" assertion naming a pair of the table,
\* and no step ever changes the function stored for a pair: each pair keeps
\* the first function registered for it.
C2_FirstHandlerKept ==
  [][/\ visitors' # visitors
        => \A c \in Classes : \A typ \in NodeTypes : \A sel \in Selectors :
             Has(c, typ, sel)
             => (Has(c, typ, sel))' /\ (Own(c, typ, sel))' = Own(c, typ, sel)
     /\ nregs' # nregs
        => \A celf \in EngineTypes : \A ca \in RegistrationCalls :
             (/\ Decorate(celf, ca, "visit")
              /\ \E p \in NamedPairs(ca) : Has(celf, p[1], p[2]))
             => /\ err' # <<>>
                /\ err'[1] = "Oops"
                /\ (Has(celf, err[2], err[3]))'
    ]_vars

\* A second registration failed on a pair of the first without storing
\* anything, and the pair still holds function 1.
C2_Witness ==
  /\ nregs = 2
  /\ err # <<>>
  /\ err[1] = "Oops"
  /\ \A c \in Classes : \A typ \in NodeTypes : \A sel \in Selectors :
       Has(c, typ, sel) => Own(c, typ, sel) = 1
  /\ \E c \in EngineTypes : Has(c, err[2], err[3])

\* --------------------------------------------------------------- claim C3
\* C3: after a whole-node function returned False for a node, the next thing
\* the traversal does is outside that node: nothing is logged at the node's
\* depth or below it until a caller goes on (a shallower event) or a sibling
\* is visited (a new visit() at the same depth).
C3_StopSkipsNode ==
  \A i \in DOMAIN log :
    (log[i].ev = "call" /\ log[i].attr = None /\ log[i].ret = "False")
    => \/ i = Len(log)
       \/ log[i + 1].depth < log[i].depth
       \/ log[i + 1].ev = "visit" /\ log[i + 1].depth = log[i].depth

\* The record t1, which has fields, was stopped at the root: the whole visit
\* is the call of its function.
C3_Witness ==
  /\ status = "returned"
  /\ Len(log) = 2
  /\ log[2].ev = "call" /\ log[2].obj = "t1" /\ log[2].ret = "False"
  /\ Heap["t1"].vars # <<>>

\* --------------------------------------------------------------- claim C4
\* The default traversal follows the call logged at i: the shape hook of the
\* node after a whole-node function, visitAttr of the field after a field
\* function.
Descends(i) ==
  /\ i < Len(log)
  /\ log[i + 1].obj = log[i].obj
  /\ log[i + 1].depth = log[i].depth
  /\ IF log[i].attr = None
     THEN log[i + 1].ev \in HookEvents
     ELSE log[i + 1].ev = "visitAttr" /\ log[i + 1].attr = log[i].attr

\* C4: descent follows a call iff it returned True, or None with the
\* engine's defaultStop false; defaultStop is false when no engine type of
\* the chain sets it.
C4_DescentIff ==
  /\ \A i \in DOMAIN log :
       log[i].ev = "call"
       => (Descends(i) <=> \/ log[i].ret = "True"
                           \/ log[i].ret = "None" /\ ~DefaultStopOf(engine))
  /\ (engine \in EngineTypes /\ \A c \in Range(Mro(engine)) \cap EngineTypes :
                                  defaultStop[c] = "unset")
     => ~DefaultStopOf(engine)

\* With defaultStop true, a field function and a whole-node function have
\* returned True and the descent followed.
C4_Witness ==
  /\ engine \in EngineTypes
  /\ DefaultStopOf(engine)
  /\ \E i \in DOMAIN log, j \in DOMAIN log :
       /\ log[i].ev = "call" /\ log[i].attr = None /\ log[i].ret = "True" /\ Descends(i)
       /\ log[j].ev = "call" /\ log[j].attr # None /\ log[j].ret = "True" /\ Descends(j)

\* --------------------------------------------------------------- claim C5
\* The engine type whose handler set for typ an engine of type e uses: the
\* nearest one of its chain with an entry for typ ("none" when there is none).
NearestWith(e, typ) ==
  LET cs == SelectSeq(Mro(e), LAMBDA c : c \in EngineTypes /\ HasType(c, typ))
  IN IF cs = <<>> THEN "none" ELSE Head(cs)

\* C5: for a public field f of a record of type T the function called is the
\* (T, f) entry of T's handler set if there is one, else its (T, "*") entry
\* if there is one, else none; and a field without a function is recursed
\* into: visitAttr, then visit(value).
C5_FieldHandlerChoice ==
  \A i \in DOMAIN log :
    FieldStart(i)
    => LET typ == TypeOf(log[i].obj)
           f == log[i].attr
           c == NearestWith(engine, typ)
       IN /\ Invoked(i) = IF c # "none" /\ Has(c, typ, f) THEN Own(c, typ, f)
                          ELSE IF c # "none" /\ Has(c, typ, Wildcard)
                               THEN Own(c, typ, Wildcard)
                          ELSE 0
          /\ Invoked(i) = 0
             => /\ log[i].ev = "visitAttr"
                /\ i < Len(log) => /\ log[i + 1].ev = "visit"
                                   /\ log[i + 1].obj = GetAttr(log[i].obj, f)
                                   /\ log[i + 1].depth = log[i].depth + 1
                /\ status = "returned" => i < Len(log)

\* T's handler set has an entry for x and another for "*": x got its own
\* function and y the wildcard's.
C5_Witness ==
  /\ engine \in EngineTypes
  /\ LET c == NearestWith(engine, "T")
     IN /\ c # "none"
        /\ Has(c, "T", "x") /\ Has(c, "T", Wildcard)
        /\ Own(c, "T", "x") # Own(c, "T", Wildcard)
        /\ \E i \in DOMAIN log, j \in DOMAIN log :
             /\ log[i].ev = "call" /\ log[i].obj = "t1" /\ log[i].attr = "x"
             /\ log[i].h = Own(c, "T", "x")
             /\ log[j].ev = "call" /\ log[j].obj = "t1" /\ log[j].attr = "y"
             /\ log[j].h = Own(c, "T", Wildcard)

\* --------------------------------------------------------------- claim C6
\* C6: when the engine's type and one of its ancestors both registered
\* (T, s), a visit calls the engine's own function where (T, s) applies, and
\* not the ancestor's.
C6_NearestWins ==
  engine \in EngineTypes
  => \A i \in DOMAIN log :
       Dispatch(i)
       => LET typ == TypeOf(log[i].obj)
          IN \A sel \in SelectorsAt(i) :
               (Has(engine, typ, sel) /\ Applies(engine, i, sel))
               => \A a \in Range(Ancestors(engine)) :
                    Has(a, typ, sel)
                    => /\ Invoked(i) = Own(engine, typ, sel)
                       /\ Invoked(i) # Own(a, typ, sel)

C6_Witness ==
  /\ engine = "B"
  /\ Has("A", "T", None) /\ Has("B", "T", None)
  /\ \E i \in DOMAIN log :
       /\ log[i].ev = "call" /\ log[i].obj = "t1" /\ log[i].attr = None
       /\ log[i].h = Own("B", "T", None)
       /\ log[i].h # Own("A", "T", None)

\* --------------------------------------------------------------- claim C7
\* How many (node type, selector) insertions an argument list asks for.
RECURSIVE Insertions(_)
Insertions(clazzes_attrs) ==
  IF clazzes_attrs = <<>> THEN 0
  ELSE Len(Head(clazzes_attrs)[1]) * Len(Head(clazzes_attrs)[2])
         + Insertions(Tail(clazzes_attrs))

\* C7: a registration on engine type celf leaves the class attribute of
\* every other type as it was, and it succeeds, storing the new function
\* under every pair it names, whenever celf's own table holds none of the
\* pairs (and the call names none twice), whatever the ancestors hold.
C7_OwnTableOnly ==
  [][\A celf \in Classes : \A ca \in RegistrationCalls : \A name \in MethodNames :
       (nregs' # nregs /\ Decorate(celf, ca, name))
       => /\ \A c \in Classes \ {celf} : visitors'[c] = visitors[c]
          /\ (/\ celf \in EngineTypes
              /\ name = "visit"
              /\ Cardinality(NamedPairs(ca)) = Insertions(ca)
              /\ \A p \in NamedPairs(ca) : ~Has(celf, p[1], p[2]))
             => /\ err' = <<>>
                /\ \A p \in NamedPairs(ca) :
                     (Has(celf, p[1], p[2]))' /\ (Own(celf, p[1], p[2]))' = nregs + 1
    ]_vars

\* B registered, without error, a pair that A had registered before.
C7_Witness ==
  /\ nregs = 2
  /\ err = <<>>
  /\ \E typ \in NodeTypes : \E sel \in Selectors :
       /\ Has("A", typ, sel) /\ Own("A", typ, sel) = 1
       /\ Has("B", typ, sel) /\ Own("B", typ, sel) = 2

\* --------------------------------------------------------------- claim C8
\* C8: every function called for a node is stored, in the table of an engine
\* type of the engine's chain, under the node's exact runtime type (and the
\* field's name or the wildcard, or None for a whole-node call).
C8_ExactType ==
  \A i \in DOMAIN log :
    log[i].ev = "call"
    => \E c \in Range(Mro(engine)) \cap EngineTypes :
         \E sel \in {log[i].attr} \cup (IF log[i].attr = None THEN {} ELSE {Wildcard}) :
           /\ Has(c, TypeOf(log[i].obj), sel)
           /\ Own(c, TypeOf(log[i].obj), sel) = log[i].h

\* s1, of type S (a strict subtype of T), was visited whole and by field
\* without any call, while the chain has whole-node and field functions for
\* T and nothing for S.
C8_Witness ==
  /\ engine \in EngineTypes
  /\ NodeMro["S"] = <<"S", "T">>
  /\ \E c \in Range(Mro(engine)) \cap EngineTypes : Has(c, "T", None)
  /\ \E c \in Range(Mro(engine)) \cap EngineTypes : Has(c, "T", "x")
  /\ \A c \in EngineTypes : ~HasType(c, "S")
  /\ \E i \in DOMAIN log :
       /\ i + 2 <= Len(log)
       /\ log[i].ev = "visit" /\ log[i].obj = "s1"
       /\ log[i + 1].ev = "visitObject" /\ log[i + 1].obj = "s1"
       /\ log[i + 2].ev = "visitAttr" /\ log[i + 2].obj = "s1" /\ log[i + 2].attr = "x"

\* --------------------------------------------------------------- claim C9
\* The attribute names in ascending order of their code points
\* ("_" is 95, "x" 120, "y" 121).
Ascending == <<"_p", "x", "y">>

Before(f, g) ==
  \E m \in DOMAIN Ascending, n \in DOMAIN Ascending :
    m < n /\ Ascending[m] = f /\ Ascending[n] = g

\* The run of visitObject logged at i is over at k: its caller went on, or
\* its stack slot holds a new visit().
Ended(i, k) ==
  /\ k > i
  /\ \/ log[k].depth < log[i].depth
     \/ log[k].ev = "visit" /\ log[k].depth = log[i].depth

\* The field starts of the run of visitObject logged at i.
FieldStarts(i) ==
  { j \in DOMAIN log :
      /\ j > i
      /\ FieldStart(j)
      /\ log[j].depth = log[i].depth
      /\ \A k \in (i + 1)..(j - 1) : ~Ended(i, k) }

PublicFields(o) == {k \in Range(Keys(Heap[o].vars)) : ~IsPrivate(k)}

\* C9: the fields of a record are started in strictly ascending order of
\* name, whatever their insertion order, all between two of them belongs to
\* the earlier one, and a run of visitObject that completed started every
\* public field (so each exactly once).
C9_FieldOrder ==
  \A i \in DOMAIN log :
    log[i].ev = "visitObject"
    => /\ \A j \in FieldStarts(i) : log[j].obj = log[i].obj
       /\ \A j \in FieldStarts(i) : \A k \in FieldStarts(i) :
            j < k => Before(log[j].attr, log[k].attr)
       /\ (status = "returned" \/ \E k \in DOMAIN log : Ended(i, k))
          => {log[j].attr : j \in FieldStarts(i)} = PublicFields(log[i].obj)

\* t1 was given y before x; x was handled, recursed into, and then y.
C9_Witness ==
  /\ status = "returned"
  /\ Keys(Heap["t1"].vars) = <<"y", "_p", "x">>
  /\ \E i \in DOMAIN log, j \in DOMAIN log :
       /\ i < j
       /\ log[i].ev = "visitAttr" /\ log[i].obj = "t1" /\ log[i].attr = "x"
       /\ log[j].ev = "visitAttr" /\ log[j].obj = "t1" /\ log[j].attr = "y"

\* -------------------------------------------------------------- claim C10
\* The call logged at i signalled stop.
Stopped(i) ==
  \/ log[i].ret = "False"
  \/ log[i].ret = "None" /\ DefaultStopOf(engine)

\* C10: a field function that signals stop is not followed by visitAttr for
\* its field, and when the record has a later public field the very next
\* thing logged is the start of a later field of the same record; the visit
\* does not end before that.
C10_FieldStopIsLocal ==
  \A i \in DOMAIN log :
    (log[i].ev = "call" /\ log[i].attr # None /\ Stopped(i))
    => /\ ~Descends(i)
       /\ LET later == {g \in PublicFields(log[i].obj) : Before(log[i].attr, g)}
          IN later # {}
             => /\ status # "returned"  \/ i < Len(log)
                /\ i < Len(log)
                   => /\ FieldStart(i + 1)
                      /\ log[i + 1].obj = log[i].obj
                      /\ log[i + 1].depth = log[i].depth
                      /\ log[i + 1].attr \in later

\* The function of t1.x stopped and t1.y was still handled and recursed into.
C10_Witness ==
  /\ status = "returned"
  /\ \E i \in DOMAIN log, j \in DOMAIN log :
       /\ i < j
       /\ log[i].ev = "call" /\ log[i].obj = "t1" /\ log[i].attr = "x" /\ Stopped(i)
       /\ log[j].ev = "visitAttr" /\ log[j].obj = "t1" /\ log[j].attr = "y"

\* -------------------------------------------------------------- claim C11
\* The calls of visit() made directly by the hook logged at i, as places of
\* the log.
Children(i) ==
  { j \in DOMAIN log :
      /\ j > i
      /\ log[j].ev = "visit"
      /\ log[j].depth = log[i].depth + 1
      /\ \A k \in (i + 1)..j : ~Ended(i, k) }

\* The name starts with "_", as its characters say.
Underscored(key) == Head(Chars[key]) = Head(Chars["_p"])

\* C11: no function is called for a field whose name starts with "_" and
\* visitAttr is not reached for it, whatever is registered under its name or
\* under the wildcard; every visit() a record makes is for the value of one
\* of its fields whose name does not start with "_", just after visitAttr
\* for that field.
C11_PrivateSkipped ==
  /\ \A i \in DOMAIN log :
       (log[i].ev \in {"call", "visitAttr"} /\ log[i].attr # None)
       => ~Underscored(log[i].attr)
  /\ \A i \in DOMAIN log :
       log[i].ev = "visitObject"
       => \A j \in Children(i) :
            /\ log[j - 1].ev = "visitAttr"
            /\ log[j - 1].obj = log[i].obj
            /\ ~Underscored(log[j - 1].attr)
            /\ log[j].obj = GetAttr(log[i].obj, log[j - 1].attr)

\* The handler set used for t1 has a function under "_p" and one under the
\* wildcard; t1 was visited to the end, the wildcard function ran for x.
C11_Witness ==
  /\ status = "returned"
  /\ engine \in EngineTypes
  /\ {"_p", Wildcard} \subseteq DOMAIN VisitorsFor(engine, "t1")
  /\ "_p" \in Range(Keys(Heap["t1"].vars))
  /\ \E i \in DOMAIN log, j \in DOMAIN log :
       /\ i < j
       /\ log[i].ev = "visitObject" /\ log[i].obj = "t1"
       /\ log[j].ev = "call" /\ log[j].obj = "t1" /\ log[j].attr = "x"

\* -------------------------------------------------------------- claim C12
\* The values the hook logged at i called visit() on, in the order of the
\* calls.
ChildObjs(i) ==
  LET c == Children(i)
  IN [n \in 1..Cardinality(c) |->
        log[CHOOSE j \in c : Cardinality({k \in c : k <= j}) = n].obj]

IsPrefix(s, t) == Len(s) <= Len(t) /\ s = SubSeq(t, 1, Len(s))

\* The hook logged at i has returned.
Over(i) == status = "returned" \/ \E k \in DOMAIN log : Ended(i, k)

\* The values the leaf hook ran on, in order.
Leaves == [n \in DOMAIN SelectSeq(log, LAMBDA e : e.ev = "visitLeaf") |->
             SelectSeq(log, LAMBDA e : e.ev = "visitLeaf")[n].obj]

NodeCall(i) ==
  IF i < Len(log) /\ log[i + 1].ev = "call" /\ log[i + 1].attr = None
     /\ log[i + 1].depth = log[i].depth
  THEN i + 1 ELSE 0

\* The visit() logged at i got past the function for the whole node.
Passed(i) ==
  NodeCall(i) # 0 => (~Stopped(NodeCall(i)) /\ log[NodeCall(i)].ret # "raise")

\* C13: a visit() that the function for the whole node did not stop calls
\* one hook, right away: visitObject iff the value has attributes and is no
\* enumeration member, else visitList iff it is a list, else visitDict iff
\* it is a dict, else visitLeaf.  A hook is only ever called so, hence once
\* per visit() and never by a stopped one.  An enumeration member gets
\* visitLeaf, and none of its attributes is handled or visited.
C13_OneShapeHook ==
  /\ \A i \in DOMAIN log :
       (log[i].ev = "visit" /\ Passed(i))
       => LET h == IF NodeCall(i) # 0 THEN i + 2 ELSE i + 1
              t == TypeOf(log[i].obj)
          IN /\ h <= Len(log)
             /\ log[h].obj = log[i].obj /\ log[h].depth = log[i].depth
             /\ log[h].ev \in HookEvents
             /\ log[h].ev = "visitObject" <=> (HasDict(t) /\ ~IsEnum(t))
             /\ log[h].ev = "visitList" <=> (~(HasDict(t) /\ ~IsEnum(t)) /\ IsList(t))
             /\ log[h].ev = "visitDict"
                  <=> (~(HasDict(t) /\ ~IsEnum(t)) /\ ~IsList(t) /\ IsDict(t))
             /\ IsEnum(t) => log[h].ev = "visitLeaf"
  /\ \A h \in DOMAIN log :
       log[h].ev \in HookEvents
       => /\ h > 1
          /\ \/ log[h - 1].ev = "visit" /\ NodeCall(h - 1) = 0
             \/ /\ h > 2
                /\ log[h - 2].ev = "visit" /\ NodeCall(h - 2) = h - 1 /\ Passed(h - 2)
  /\ \A i \in DOMAIN log :
       IsEnum(TypeOf(log[i].obj))
       => /\ log[i].attr = None
          /\ log[i].ev \in {"visit", "call", "visitLeaf"}
          /\ i < Len(log) => log[i + 1].depth <= log[i].depth

\* c1, an enumeration member with an attribute x, was visited below t1 and
\* got the leaf hook; t1 and s1 were traversed as objects.
C13_Witness ==
  /\ status = "returned"
  /\ IsEnum(TypeOf("c1")) /\ Keys(Heap["c1"].vars) = <<"x">>
  /\ \E i \in DOMAIN log : log[i].ev = "visitLeaf" /\ log[i].obj = "c1"
  /\ \E i \in DOMAIN log : log[i].ev = "visitObject" /\ log[i].obj = "s1"
  /\ \E i \in DOMAIN log : log[i].ev = "call" /\ log[i].obj = "c1"

\* -------------------------------------------------------------- claim C14
\* C14: a call of a registered function that raised is the last thing that
\* happened in its visit: no function, hook, field, element or value after
\* it, no second call of it; no frame of the engine is left and the
\* outermost visit() has ended with the exception.  A visit ends so only
\* through such a call.
C14_RaisePropagates ==
  /\ \A i \in DOMAIN log :
       (log[i].ev = "call" /\ log[i].ret = "raise")
       => /\ i = Len(log)
          /\ stack = <<>>
          /\ status = "raised"
  /\ status = "raised"
     => /\ stack = <<>>
        /\ log # <<>>
        /\ log[Len(log)].ev = "call" /\ log[Len(log)].ret = "raise"

\* The function of t1.x raised with field y of t1 still to come.
C14_Witness ==
  /\ status = "raised"
  /\ log[Len(log)].ev = "call" /\ log[Len(log)].ret = "raise"
  /\ log[Len(log)].obj = "t1" /\ log[Len(log)].attr = "x"
  /\ "y" \in PublicFields("t1")

\* -------------------------------------------------------------- claim C15
\* C15: where a function is registered for the whole node, its call is the
\* first thing visit() does for the node: it comes right after visit() was
\* entered and right before the node's hook, so before every field, every
\* recursive visit and every call of a function inside the node; where a
\* function applies to a field, it is called right before visitAttr
\* recurses into the field's value.
C15_HandlersFirst ==
  \A i \in DOMAIN log :
    /\ log[i].ev = "visit"
       => LET hs == VisitorsFor(engine, log[i].obj)
          IN None \in DOMAIN hs
             => /\ i < Len(log)
                /\ log[i + 1].ev = "call" /\ log[i + 1].obj = log[i].obj
                /\ log[i + 1].attr = None /\ log[i + 1].depth = log[i].depth
                /\ log[i + 1].h = hs[None]
    /\ log[i].ev \in HookEvents
       => /\ i > 1
          /\ log[i - 1].obj = log[i].obj /\ log[i - 1].depth = log[i].depth
          /\ \/ log[i - 1].ev = "call" /\ log[i - 1].attr = None
             \/ /\ log[i - 1].ev = "visit"
                /\ None \notin DOMAIN VisitorsFor(engine, log[i].obj)
    /\ log[i].ev = "visitAttr"
       => LET f == FieldVisitor(VisitorsFor(engine, log[i].obj), log[i].attr)
          IN f # 0
             => /\ i > 1
                /\ log[i - 1].ev = "call" /\ log[i - 1].obj = log[i].obj
                /\ log[i - 1].attr = log[i].attr /\ log[i - 1].depth = log[i].depth
                /\ log[i - 1].h = f

\* The function for t1 as a whole was called, then the one for its field y,
\* and inside the value of y the one for s1.x.
C15_Witness ==
  /\ status = "returned"
  /\ \E a \in DOMAIN log, b \in DOMAIN log, c \in DOMAIN log :
       /\ a < b /\ b < c
       /\ log[a].ev = "call" /\ log[a].obj = "t1" /\ log[a].attr = None
       /\ log[b].ev = "call" /\ log[b].obj = "t1" /\ log[b].attr = "y"
       /\ log[c].ev = "call" /\ log[c].obj = "s1" /\ log[c].attr = "x"
       /\ log[a].depth < log[c].depth

\* -------------------------------------------------------------- claim C16
\* A step of a visit: the call of visit() from outside, or any step while a
\* frame of the engine is on the stack.
VisitStep == stack # <<>> \/ stack' # <<>>

C17_Rendering ==
  error.state = "rendered"
  => /\ (~error.location.none /\ error.location.str # <<>>)
          => error.text = error.location.str \o <<":", " ">> \o error.message
     /\ (error.location.none \/ error.location.str = <<>>)
          => error.text = error.message
     /\ (error.message = BadGlyph /\ error.location = Location(<<"3", ":", "4">>))
          => error.text = <<"3", ":", "4", ":", " ", "b", "a", "d", " ", "g", "l", "y", "p", "h">>
     /\ (error.message = BadGlyph /\ error.location = NoLocation)
          => error.text = BadGlyph

\* "bad glyph" at "3:4" was rendered.
C17_Witness ==
  /\ error.state = "rendered"
  /\ error.message = BadGlyph
  /\ error.location = Location(<<"3", ":", "4">>)
  /\ Len(error.text) = Len(BadGlyph) + Len(<<"3", ":", "4">>) + Len(<<":", " ">>)

\* -------------------------------------------------------------- claim C18
\* Resolution as C18 has it: an engine type whose handler set for typ has
\* no entry is passed over, like one that has none for typ.
RECURSIVE NonEmptyWalk(_, _)
NonEmptyWalk(chain, typ) ==
  IF chain = <<>> THEN EmptyDict
  ELSE LET v == ClassVisitors(Head(chain))
       IN IF ~v.own THEN EmptyDict
          ELSE IF typ \in DOMAIN v.tab /\ v.tab[typ] # EmptyDict THEN v.tab[typ]
          ELSE NonEmptyWalk(Tail(chain), typ)

\* C18: wherever the engine decides which function to call, it takes it
\* from the first handler set for the value's type, along the inheritance
\* chain of the engine type, that has at least one entry; an empty handler
\* set of a nearer engine type is skipped.
C18_SkipsEmpty ==
  engine \in EngineTypes
  => \A i \in DOMAIN log :
       Dispatch(i)
       => LET hs == NonEmptyWalk(Mro(engine), TypeOf(log[i].obj))
          IN Invoked(i) = IF log[i].attr = None THEN DictGet(hs, None, 0)
                          ELSE FieldVisitor(hs, log[i].attr)

\* -------------------------------------------------------------- claim C19
\* The (node type, selector) pairs an argument list names, in the order the
\* loops of wrapper reach them: pair by pair, clazz by clazz, attr by attr.
RECURSIVE AttrPairs(_, _)
AttrPairs(clazz, attrs) ==
  IF attrs = <<>> THEN <<>>
  ELSE << <<clazz, Head(attrs)>> >> \o AttrPairs(clazz, Tail(attrs))

RECURSIVE ClazzPairs(_, _)
ClazzPairs(clazzes, attrs) ==
  IF clazzes = <<>> THEN <<>>
  ELSE AttrPairs(Head(clazzes), attrs) \o ClazzPairs(Tail(clazzes), attrs)

RECURSIVE PairsInOrder(_)
PairsInOrder(clazzes_attrs) ==
  IF clazzes_attrs = <<>> THEN <<>>
  ELSE ClazzPairs(Head(clazzes_attrs)[1], Head(clazzes_attrs)[2])
         \o PairsInOrder(Tail(clazzes_attrs))

\* The first place of ps whose pair is already in celf's own table or
\* earlier in ps; 0 when there is none.
FirstConflict(celf, ps) ==
  LET bad == {n \in DOMAIN ps :
                \/ Has(celf, ps[n][1], ps[n][2])
                \/ \E m \in 1..(n - 1) : ps[m] = ps[n]}
  IN IF bad = {} THEN 0 ELSE CHOOSE n \in bad : \A m \in bad : n <= m

\* C19: a registration that names several pairs and meets a pair already
\* registered raises for that pair and undoes nothing: the pairs before it
\* are in the table, bound to the new function; every other pair, the
\* conflicting one and those after it included, is in the table or not as
\* before, bound to the function it had.
C19_NoRollback ==
  [][\A celf \in EngineTypes : \A ca \in RegistrationCalls :
       (nregs' # nregs /\ Decorate(celf, ca, "visit"))
       => LET ps == PairsInOrder(ca)
              k == FirstConflict(celf, ps)
              done == {ps[n] : n \in 1..(k - 1)}
          IN k # 0
             => /\ err' = <<"Oops", ps[k][1], ps[k][2]>>
                /\ \A p \in done :
                     (Has(celf, p[1], p[2]))' /\ (Own(celf, p[1], p[2]))' = nregs + 1
                /\ \A typ \in NodeTypes : \A sel \in Selectors :
                     <<typ, sel>> \notin done
                     => /\ (Has(celf, typ, sel))' <=> Has(celf, typ, sel)
                        /\ Has(celf, typ, sel)
                             => (Own(celf, typ, sel))' = Own(celf, typ, sel)
    ]_vars

\* (T, x) was registered; then one call named (T, y), (T, x), (T, y),
\* (S, x), (S, y): it stored (T, y), failed on (T, x), which kept its
\* function, and stored nothing for S.
C19_Witness ==
  /\ nregs = 2
  /\ err = <<"Oops", "T", "x">>
  /\ \E c \in EngineTypes :
       /\ Has(c, "T", "x") /\ Own(c, "T", "x") = 1
       /\ Has(c, "T", "y") /\ Own(c, "T", "y") = nregs
       /\ ~Has(c, "S", "x") /\ ~Has(c, "S", "y")

\* -------------------------------------------------------------- claim C20
\* The values the hook of o calls visit() on, in order: the values of the
\* public fields of a record, the elements of a list, the values of a dict,
\* nothing for a leaf.
RECURSIVE FieldValues(_, _)
FieldValues(o, keys) ==
  IF keys = <<>> THEN <<>>
  ELSE (IF Underscored(Head(keys)) THEN <<>> ELSE <<GetAttr(o, Head(keys))>>)
         \o FieldValues(o, Tail(keys))

Edges(o) ==
  LET t == TypeOf(o)
  IN IF HasDict(t) /\ ~IsEnum(t) THEN FieldValues(o, Keys(Heap[o].vars))
     ELSE IF IsList(t) THEN Heap[o].elems
     ELSE IF IsDict(t) THEN [n \in DOMAIN Heap[o].elems |-> Heap[o].elems[n][2]]
     ELSE <<>>

\* The number of paths from value a to value b along Edges; the graph has
\* no cycle, so the recursion ends.
RECURSIVE Paths(_, _)
RECURSIVE SumPaths(_, _)
SumPaths(s, b) == IF s = <<>> THEN 0 ELSE Paths(Head(s), b) + SumPaths(Tail(s), b)

Paths(a, b) == (IF a = b THEN 1 ELSE 0) + SumPaths(Edges(a), b)

\* How often visit() was entered for value o.
Visits(o) == Cardinality({i \in DOMAIN log : log[i].ev = "visit" /\ log[i].obj = o})

\* A visit that returned and in which no function signalled stop entered
\* every value once for each path that leads to it from the root.
OncePerPath ==
  ( /\ status = "returned"
    /\ log # <<>>
    /\ \A i \in DOMAIN log : log[i].ev = "call" => ~Stopped(i) )
  => \A o \in Objs : Visits(o) = Paths(log[1].obj, o)

\* C20: on the (finite, acyclic) graph every call of visit() ends, by
\* returning or with the exception of a function; and when it returned
\* without any function signalling stop, every value reachable from the root
\* through public fields of records, elements of lists and values of dicts
\* was visited once per path that reaches it (twice when two paths do: no
\* set of visited values is kept).
C20_TerminatesOncePerPath ==
  /\ []OncePerPath
  /\ (status = "running") ~> (status # "running")

\* t1 was visited to the end with functions called and none stopping; c1,
\* which t1.x and t1.y.x both lead to, was visited twice.
C20_Witness ==
  /\ status = "returned"
  /\ log[1].obj = "t1"
  /\ \E i \in DOMAIN log : log[i].ev = "call"
  /\ \A i \in DOMAIN log : log[i].ev = "call" => ~Stopped(i)
  /\ Paths("t1", "c1") = Visits("c1")
  /\ Visits("c1") > 1

====
